---- MODULE Spec2Model ----
(***************************************************************************)
(* phantom-track (src/app.py): the lazy generator singleton (load_model),  *)
(* the track blender (blend_tracks) and the generation orchestrator        *)
(* (generate), as a state machine of worker threads calling these entry    *)
(* points over the shared process state: the global model handle, the      *)
(* clock that names the artifacts and the scratch directory.               *)
(*                                                                         *)
(* Times are integer milliseconds, as pydub's len() and slicing are.       *)
(* Strings that the code builds or tests (prompt, genre) are sequences of  *)
(* tokens; the fixed user-facing messages, which are Japanese in the       *)
(* source, are named by ASCII tags with the source line beside them.       *)
(***************************************************************************)
EXTENDS Integers, Sequences, FiniteSets, TLC

\* ------------------------------------------------------------------ bounds
MaxLen == 6
LongLen == 21
MaxClock == 1
MaxCalls == 3
NumThreads == 2

\* ------------------------------------------------------- program constants
MaxFiles == 20
ManyTracks == 5
MaxCrossfadeMs == 1000
MsPerSecond == 1000
DefaultExtract == 10
DefaultCrossfade == 2

Min(a, b) == IF a <= b THEN a ELSE b

\* ----------------------------------------------------------- Python values
\* Optional[...]: None, or a value s (a sequence: a str as tokens, a list).
None == [none |-> TRUE, s |-> <<>>]
Some(x) == [none |-> FALSE, s |-> x]
\* Python truthiness of an Optional sequence: None and empty are falsy.
Truthy(v) == ~v.none /\ v.s # <<>>

NoExc == [type |-> "", msg |-> ""]
Exc(type, msg) == [type |-> type, msg |-> msg]
Raises(e) == e.type # ""
\* isinstance(e, cls) for the exception classes that occur: ValueError and
\* OSError/RuntimeError are subclasses of Exception.
ExceptionClasses == {"ValueError", "OSError", "RuntimeError"}
IsInstance(e, cls) ==
    \/ e.type = cls
    \/ cls = "Exception" /\ e.type \in ExceptionClasses

\* ------------------------------------------------------------ audio files
\* A path of the track list: its extension, and what AudioSegment.from_file
\* makes of the file: ms >= 0 is the decoded length, ms < 0 a decode error.
SupportedExt == {".mp3", ".wav", ".ogg", ".flac"}
EndsWithAudioExt(f) == f.ext \in SupportedExt
Decodes(f) == f.ms >= 0

\* An AudioSegment: its length, and the input positions it is made of.
NoAudio == [ms |-> 0, src |-> <<>>]
FromFile(f, i) == [ms |-> f.ms, src |-> <<i>>]
\* audio[:n]
Leading(audio, n) == [ms |-> Min(audio.ms, n), src |-> audio.src]

\* files[:20] when there are more than 20
Truncate(files) ==
    IF Len(files) > MaxFiles THEN SubSeq(files, 1, MaxFiles) ELSE files

\* One iteration of the decode loop: the segments after file i.
ExtractSegment(f, i, duration, segments) ==
    IF EndsWithAudioExt(f)
    THEN IF Decodes(f)
         THEN LET audio == FromFile(f, i) IN
              IF audio.ms <= duration * MsPerSecond
              THEN Append(segments, audio)
              ELSE Append(segments, Leading(audio, duration * MsPerSecond))
         ELSE segments
    ELSE segments

RECURSIVE DecodeLoop(_, _, _, _)
DecodeLoop(files, i, duration, segments) ==
    IF i > Len(files) THEN segments
    ELSE DecodeLoop(files, i + 1, duration,
                    ExtractSegment(files[i], i, duration, segments))

\* CrossfadeMs with the cap starting at 5 segments instead of above 5.
CrossfadeMsFromFive(segments, crossfade_duration) ==
    IF Len(segments) >= ManyTracks
    THEN Min(crossfade_duration * MsPerSecond, MaxCrossfadeMs)
    ELSE crossfade_duration * MsPerSecond

\* The crossfade resolved from the number of decoded segments.
CrossfadeMs(segments, crossfade_duration) ==
    IF Len(segments) > ManyTracks
    THEN Min(crossfade_duration * MsPerSecond, MaxCrossfadeMs)
    ELSE crossfade_duration * MsPerSecond

\* pydub's AudioSegment.append as line 91 calls it: no crossfade is plain
\* concatenation; a crossfade longer than either side raises ValueError;
\* otherwise the two overlap by the crossfade.
AppendSegment(result, segment, crossfade) ==
    IF crossfade = 0
    THEN [exc |-> NoExc,
          audio |-> [ms |-> result.ms + segment.ms,
                     src |-> result.src \o segment.src]]
    ELSE IF crossfade > result.ms
    THEN [exc |-> Exc("ValueError", "CROSSFADE_LONGER_THAN_ORIGINAL"),
          audio |-> NoAudio]
    ELSE IF crossfade > segment.ms
    THEN [exc |-> Exc("ValueError", "CROSSFADE_LONGER_THAN_APPENDED"),
          audio |-> NoAudio]
    ELSE [exc |-> NoExc,
          audio |-> [ms |-> result.ms + segment.ms - crossfade,
                     src |-> result.src \o segment.src]]

\* The merge loop from segment k on: the merged audio or the exception that
\* ended it, and the crossfade of every append made.
RECURSIVE MergeLoop(_, _, _, _, _)
MergeLoop(result, segments, k, crossfade_ms, applied) ==
    IF k > Len(segments)
    THEN [exc |-> NoExc, audio |-> result, applied |-> applied]
    ELSE LET r == AppendSegment(result, segments[k], crossfade_ms) IN
         IF Raises(r.exc)
         THEN [exc |-> r.exc, audio |-> NoAudio,
               applied |-> Append(applied, crossfade_ms)]
         ELSE MergeLoop(r.audio, segments, k + 1, crossfade_ms,
                        Append(applied, crossfade_ms))

NoPath == [prefix |-> "", t |-> 0]
BlendedPath(now) == [prefix |-> "blended_", t |-> now]
OutputPath(now) == [prefix |-> "phantom_track_", t |-> now]

\* Line 54 and line 78.
MsgNoFilesChosen == "ONSEI_FILE_GA_SENTAKU_SARETE_IMASEN"
MsgNoValidAudio == "YUUKOU_NA_ONSEI_FILE_GA_ARIMASEN"

BlendOut(exc, path, audio, segments, applied) ==
    [exc |-> exc, path |-> path, audio |-> audio,
     segments |-> segments, applied |-> applied]
NoBlend == BlendOut(NoExc, NoPath, NoAudio, <<>>, <<>>)

\* blend_tracks(files, duration, crossfade_duration) at clock second `now`,
\* with the export to the scratch directory succeeding or not.
blend_tracks(files, duration, crossfade_duration, now, exportOk) ==
    IF files = <<>>
    THEN BlendOut(Exc("ValueError", MsgNoFilesChosen), NoPath, NoAudio,
                  <<>>, <<>>)
    ELSE LET segments == DecodeLoop(Truncate(files), 1, duration, <<>>) IN
         IF segments = <<>>
         THEN BlendOut(Exc("ValueError", MsgNoValidAudio), NoPath, NoAudio,
                       <<>>, <<>>)
         ELSE LET crossfade_ms == CrossfadeMs(segments, crossfade_duration)
                  merged == MergeLoop(segments[1], segments, 2, crossfade_ms,
                                      <<>>)
              IN  IF Raises(merged.exc)
                  THEN BlendOut(merged.exc, NoPath, NoAudio, segments,
                                merged.applied)
                  ELSE IF ~exportOk
                  THEN BlendOut(Exc("OSError", "EXPORT_FAILED"), NoPath,
                                NoAudio, segments, merged.applied)
                  ELSE BlendOut(NoExc, BlendedPath(now), merged.audio,
                                segments, merged.applied)

\* ------------------------------------------------------- prompt resolution
Whitespace == {" ", "\t"}

\* str.strip(): leading and trailing whitespace removed.
RECURSIVE LStrip(_)
LStrip(s) ==
    IF s # <<>> /\ s[1] \in Whitespace THEN LStrip(Tail(s)) ELSE s
RECURSIVE RStrip(_)
RStrip(s) ==
    IF s # <<>> /\ s[Len(s)] \in Whitespace
    THEN RStrip(SubSeq(s, 1, Len(s) - 1)) ELSE s
Strip(s) == RStrip(LStrip(s))

\* Line 152; line 155's sentinel, "nashi" in the source.
DefaultPrompt == <<"smooth", " ", "melodic", " ", "music">>
GenreNone == <<"NASHI">>

\* BasePrompt keeping the stripped prompt instead of the prompt as given.
BasePromptStripped(prompt) ==
    IF ~Truthy(prompt) \/ Strip(prompt.s) = <<>>
    THEN DefaultPrompt ELSE Strip(prompt.s)

\* Lines 151-152: the default when the prompt is falsy or blank.
BasePrompt(prompt) ==
    IF ~Truthy(prompt) \/ Strip(prompt.s) = <<>>
    THEN DefaultPrompt ELSE prompt.s

\* Lines 155-156: f"{genre}, {prompt}" unless genre is falsy or the sentinel.
WithGenre(genre, base) ==
    IF Truthy(genre) /\ genre.s # GenreNone
    THEN genre.s \o <<",", " ">> \o base ELSE base

ResolvePrompt(prompt, genre) == WithGenre(genre, BasePrompt(prompt))

\* --------------------------------------------------------- generate's result
NoResult == [kind |-> "none", msg |-> <<>>, path |-> NoPath, exc |-> NoExc]
ReturnMsg(m) == [kind |-> "msg", msg |-> m, path |-> NoPath, exc |-> NoExc]
ReturnPath(p) == [kind |-> "path", msg |-> <<>>, path |-> p, exc |-> NoExc]
ReturnHandle == [kind |-> "handle", msg |-> <<>>, path |-> NoPath,
                 exc |-> NoExc]
Raised(e) == [kind |-> "raised", msg |-> <<>>, path |-> NoPath, exc |-> e]

\* Lines 118, 125, 134, 148, 179: the fixed parts of the messages.
MsgNoFilesSelected == "ONSEI_FILE_GA_SENTAKU_SARETE_IMASEN_UPLOAD_SHITE_KUDASAI"
MsgModelLoad == "MODEL_NO_LOAD_CHUU_NI_ERROR: "
MsgBlend == "ONSEI_FILE_NO_SHORI_CHUU_NI_ERROR: "
MsgPreprocess == "ONSEI_DATA_NO_SHORI_CHUU_NI_ERROR: "
MsgGeneration == "ONGAKU_SEISEI_CHUU_NI_ERROR: "

\* NoTracks testing only for None.
NoTracksOnlyNone(track_paths) == track_paths.none

\* Line 117: not track_paths or len(track_paths) == 0
NoTracks(track_paths) == ~Truthy(track_paths) \/ Len(track_paths.s) = 0

\* The except clauses of generate's four try blocks: what generate returns
\* for an exception e raised inside the block, or e itself if none matches.
LoadHandler(e) ==
    IF IsInstance(e, "Exception") THEN ReturnMsg(<<MsgModelLoad, e.msg>>)
    ELSE Raised(e)
\* BlendHandler without the except Exception clause.
BlendHandlerValueErrorOnly(e) ==
    IF IsInstance(e, "ValueError") THEN ReturnMsg(<<e.msg>>)
    ELSE Raised(e)
\* BlendHandler wrapping every exception, the ValueError too.
BlendHandlerAllWrapped(e) ==
    IF IsInstance(e, "Exception") THEN ReturnMsg(<<MsgBlend, e.msg>>)
    ELSE Raised(e)
BlendHandler(e) ==
    IF IsInstance(e, "ValueError") THEN ReturnMsg(<<e.msg>>)
    ELSE IF IsInstance(e, "Exception") THEN ReturnMsg(<<MsgBlend, e.msg>>)
    ELSE Raised(e)
PreprocessHandler(e) ==
    IF IsInstance(e, "Exception") THEN ReturnMsg(<<MsgPreprocess, e.msg>>)
    ELSE Raised(e)
GenerationHandler(e) ==
    IF IsInstance(e, "Exception") THEN ReturnMsg(<<MsgGeneration, e.msg>>)
    ELSE Raised(e)

\* ------------------------------------------------------------------- state
VARIABLES
    model,   \* the global handle: <<>> is None, <<k>> the k-th loaded model
    loads,   \* how many times MusicGen.get_pretrained has returned a model
    clock,   \* int(time.time())
    fs,      \* TEMP_DIR: for each path, the calls that wrote it, in order
    nreq,    \* calls started so far; a call's id is its number
    th       \* per worker thread: the call it runs and its locals

vars == <<model, loads, clock, fs, nreq, th>>

Paths == {BlendedPath(t) : t \in 0..MaxClock} \cup
         {OutputPath(t) : t \in 0..MaxClock}

IdleThread ==
    [pc |-> "idle", op |-> "", rid |-> 0,
     track_paths |-> None, prompt |-> None, genre |-> None,
     duration |-> 0, crossfade_duration |-> 0,
     m |-> <<>>, reference_track |-> NoPath, read |-> 0,
     steps |-> <<>>, sent |-> None, blend |-> NoBlend, result |-> NoResult]

Threads == 1..NumThreads

Init ==
    /\ model = <<>>
    /\ loads = 0
    /\ clock = 0
    /\ fs = [p \in Paths |-> <<>>]
    /\ nreq = 0
    /\ th = [t \in Threads |-> IdleThread]

Write(path, rid) == [fs EXCEPT ![path] = Append(@, rid)]
\* Finish without the return: the result is set and the call goes on.
FinishWithoutReturn(t, steps, result) ==
    [th EXCEPT ![t].steps = steps, ![t].result = result]
\* A return statement of generate or load_model: the call ends with result.
Finish(t, steps, result) ==
    [th EXCEPT ![t].pc = "done", ![t].steps = steps, ![t].result = result]

\* ----------------------------------------------------------------- actions
\* app.load(fn=lambda: load_model()): a page load calls load_model itself.
CallLoadModel(t) ==
    /\ th[t].pc = "idle"
    /\ nreq < MaxCalls
    /\ nreq' = nreq + 1
    /\ th' = [th EXCEPT ![t].pc = "load_check", ![t].op = "load_model",
                        ![t].rid = nreq + 1]
    /\ UNCHANGED <<model, loads, clock, fs>>

\* A direct call of blend_tracks(files, duration, crossfade_duration).
CallBlendTracks(t, files, duration, crossfade_duration) ==
    /\ th[t].pc = "idle"
    /\ nreq < MaxCalls
    /\ nreq' = nreq + 1
    /\ \E exportOk \in BOOLEAN :
         LET out == blend_tracks(files, duration, crossfade_duration, clock,
                                 exportOk)
             call == [IdleThread EXCEPT
                        !.pc = "done", !.op = "blend_tracks",
                        !.rid = nreq + 1, !.track_paths = Some(files),
                        !.duration = duration,
                        !.crossfade_duration = crossfade_duration,
                        !.blend = out]
         IN  IF Raises(out.exc)
             THEN /\ th' = [th EXCEPT ![t] =
                              [call EXCEPT !.result = Raised(out.exc)]]
                  /\ fs' = fs
             ELSE /\ th' = [th EXCEPT ![t] =
                              [call EXCEPT !.result = ReturnPath(out.path)]]
                  /\ fs' = Write(out.path, nreq + 1)
    /\ UNCHANGED <<model, loads, clock>>

\* generate(track_paths, prompt, genre=genre, ...): lines 117-118.
CallGenerate(t, track_paths, prompt, genre) ==
    /\ th[t].pc = "idle"
    /\ nreq < MaxCalls
    /\ nreq' = nreq + 1
    /\ LET call == [IdleThread EXCEPT
                      !.op = "generate", !.rid = nreq + 1,
                      !.track_paths = track_paths, !.prompt = prompt,
                      !.genre = genre]
       IN  IF NoTracks(track_paths)
           THEN th' = [th EXCEPT ![t] =
                         [call EXCEPT !.pc = "done",
                            !.result = ReturnMsg(<<MsgNoFilesSelected>>)]]
           ELSE th' = [th EXCEPT ![t] = [call EXCEPT !.pc = "load_check"]]
    /\ UNCHANGED <<model, loads, clock, fs>>

\* load_model, line 35: if model is None
LoadCheck(t) ==
    /\ th[t].pc = "load_check"
    /\ th' = [th EXCEPT ![t].pc = IF model = <<>> THEN "load_get"
                                  ELSE "load_ret",
                        ![t].steps = Append(@, "load_model")]
    /\ UNCHANGED <<model, loads, clock, fs, nreq>>

\* load_model, lines 37-38: get_pretrained returns a new model, which is
\* stored in the global, or raises; generate catches it at lines 123-125.
LoadGet(t) ==
    /\ th[t].pc = "load_get"
    /\ \E ok \in BOOLEAN :
         IF ok
         THEN /\ model' = <<loads + 1>>
              /\ loads' = loads + 1
              /\ th' = [th EXCEPT ![t].pc = "load_ret"]
         ELSE LET e == Exc("RuntimeError", "GET_PRETRAINED_FAILED") IN
              /\ th' = Finish(t, th[t].steps,
                              IF th[t].op = "generate" THEN LoadHandler(e)
                              ELSE Raised(e))
              /\ UNCHANGED <<model, loads>>
    /\ UNCHANGED <<clock, fs, nreq>>

\* load_model, line 40: return model (the global, as it is now).
LoadRet(t) ==
    /\ th[t].pc = "load_ret"
    /\ IF th[t].op = "generate"
       THEN th' = [th EXCEPT ![t].pc = "blend", ![t].m = model]
       ELSE th' = [th EXCEPT ![t].pc = "done", ![t].m = model,
                             ![t].result = ReturnHandle]
    /\ UNCHANGED <<model, loads, clock, fs, nreq>>

\* generate, lines 128-134: blend_tracks(track_paths) with its defaults.
Blend(t) ==
    /\ th[t].pc = "blend"
    /\ \E exportOk \in BOOLEAN :
         LET out == blend_tracks(th[t].track_paths.s, DefaultExtract,
                                 DefaultCrossfade, clock, exportOk)
             steps == Append(th[t].steps, "blend")
         IN  IF Raises(out.exc)
             THEN /\ th' = [Finish(t, steps, BlendHandler(out.exc))
                              EXCEPT ![t].blend = out]
                  /\ fs' = fs
             ELSE /\ th' = [th EXCEPT ![t].pc = "preprocess",
                                      ![t].steps = steps,
                                      ![t].blend = out,
                                      ![t].reference_track = out.path]
                  /\ fs' = Write(out.path, th[t].rid)
    /\ UNCHANGED <<model, loads, clock, nreq>>

\* generate, lines 137-148: torchaudio.load(reference_track), resample,
\* downmix, normalize; `read` is the call whose file was loaded.
Preprocess(t) ==
    /\ th[t].pc = "preprocess"
    /\ \E ok \in BOOLEAN :
         LET steps == Append(th[t].steps, "preprocess")
             written == fs[th[t].reference_track]
         IN  IF ok
             THEN th' = [th EXCEPT ![t].pc = "set_params",
                                   ![t].steps = steps,
                                   ![t].read = written[Len(written)]]
             ELSE th' = Finish(t, steps, PreprocessHandler(
                                 Exc("RuntimeError", "TORCHAUDIO_FAILED")))
    /\ UNCHANGED <<model, loads, clock, fs, nreq>>

\* generate, lines 160-166: model.set_generation_params(...)
SetParams(t) ==
    /\ th[t].pc = "set_params"
    /\ \E ok \in BOOLEAN :
         LET steps == Append(th[t].steps, "set_params") IN
         IF ok
         THEN th' = [th EXCEPT ![t].pc = "generate", ![t].steps = steps]
         ELSE th' = Finish(t, steps, GenerationHandler(
                             Exc("RuntimeError", "SET_PARAMS_FAILED")))
    /\ UNCHANGED <<model, loads, clock, fs, nreq>>

\* generate, lines 150-156 and 169: generate_with_chroma([prompt], ...)
Generate(t) ==
    /\ th[t].pc = "generate"
    /\ \E ok \in BOOLEAN :
         LET steps == Append(th[t].steps, "generate")
             sent == Some(ResolvePrompt(th[t].prompt, th[t].genre))
         IN  IF ok
             THEN th' = [th EXCEPT ![t].pc = "persist", ![t].steps = steps,
                                   ![t].sent = sent]
             ELSE th' = [Finish(t, steps, GenerationHandler(
                                  Exc("RuntimeError", "GENERATION_FAILED")))
                           EXCEPT ![t].sent = sent]
    /\ UNCHANGED <<model, loads, clock, fs, nreq>>

\* generate, lines 172-176: audio_write to phantom_track_<now>, and the
\* path returned.
Persist(t) ==
    /\ th[t].pc = "persist"
    /\ \E ok \in BOOLEAN :
         LET steps == Append(th[t].steps, "persist") IN
         IF ok
         THEN /\ th' = Finish(t, steps, ReturnPath(OutputPath(clock)))
              /\ fs' = Write(OutputPath(clock), th[t].rid)
         ELSE /\ th' = Finish(t, steps, GenerationHandler(
                                Exc("OSError", "AUDIO_WRITE_FAILED")))
              /\ fs' = fs
    /\ UNCHANGED <<model, loads, clock, nreq>>

\* The caller takes the result; the worker is free for the next call.
Return(t) ==
    /\ th[t].pc = "done"
    /\ th' = [th EXCEPT ![t] = IdleThread]
    /\ UNCHANGED <<model, loads, clock, fs, nreq>>

\* A second passes.
Tick ==
    /\ clock < MaxClock
    /\ clock' = clock + 1
    /\ UNCHANGED <<model, loads, fs, nreq, th>>

Step(t) ==
    \/ LoadCheck(t) \/ LoadGet(t) \/ LoadRet(t)
    \/ Blend(t) \/ Preprocess(t) \/ SetParams(t) \/ Generate(t)
    \/ Persist(t) \/ Return(t)

\* ------------------------------------------------------------------ inputs
TxtFile == [ext |-> ".txt", ms |-> 15000]
CorruptFile == [ext |-> ".mp3", ms |-> -1]
ShortClip == [ext |-> ".wav", ms |-> 1500]
LongClip == [ext |-> ".mp3", ms |-> 15000]

TrackInputs ==
    {None, Some(<<>>), Some(<<TxtFile>>), Some(<<CorruptFile, TxtFile>>),
     Some(<<LongClip>>), Some(<<CorruptFile, LongClip, TxtFile, LongClip>>),
     Some(<<ShortClip, LongClip>>)}
PromptInputs ==
    {None, Some(<<>>), Some(<<" ", "\t">>), Some(<<"rainy", " ", "night">>),
     Some(<<" ", "rainy", " ">>)}
GenreInputs ==
    {None, Some(<<>>), Some(GenreNone), Some(<<"Synthwave">>)}

Alphabet == {TxtFile, CorruptFile, ShortClip, LongClip}
BlendLists ==
    UNION {[1..n -> Alphabet] : n \in 0..MaxLen} \cup
    {[i \in 1..LongLen |-> IF i <= MaxFiles THEN a ELSE b] :
       a \in Alphabet, b \in Alphabet}
BlendDurations == {2, DefaultExtract}
BlendCrossfades == {0, DefaultCrossfade, 3}

\* ---------------------------------------------------------- specifications
\* One worker, calling the three entry points one after another.
Next ==
    \/ CallLoadModel(1)
    \/ \E f \in {x.s : x \in TrackInputs} :
         CallBlendTracks(1, f, DefaultExtract, DefaultCrossfade)
    \/ \E tp \in TrackInputs, p \in PromptInputs, g \in GenreInputs :
         CallGenerate(1, tp, p, g)
    \/ Step(1)
    \/ Tick
Spec == Init /\ [][Next]_vars

\* Concurrent workers: page loads and generate requests.
NextConc ==
    \/ \E t \in Threads : CallLoadModel(t)
    \/ \E t \in Threads :
         CallGenerate(t, Some(<<LongClip>>), None, None)
    \/ \E t \in Threads : Step(t)
    \/ Tick
SpecConc == Init /\ [][NextConc]_vars

\* blend_tracks alone, called once, over every short track list and a few
\* long ones.
NextBlend ==
    \/ /\ nreq = 0
       /\ \E f \in BlendLists, d \in BlendDurations, c \in BlendCrossfades :
            CallBlendTracks(1, f, d, c)
    \/ Return(1)
SpecBlend == Init /\ [][NextBlend]_vars

\* ------------------------------------------------------------------ claims
Calls(op) == {t \in Threads : th[t].op = op}
Done(op) == {t \in Calls(op) : th[t].pc = "done"}
WrittenBy(rid) == {p \in Paths : \E k \in 1..Len(fs[p]) : fs[p][k] = rid}

\* C1: generate never raises past its boundary. Whatever the inputs and
\* whichever step fails, a finished call of generate has returned an output
\* path or a message, never an exception; and a call that has not finished
\* has returned nothing and can take its next step.
GenerateNeverRaises ==
    \A t \in Calls("generate") :
        /\ th[t].pc = "done" =>
             \/ /\ th[t].result.kind = "path"
                /\ th[t].result.path.prefix = "phantom_track_"
             \/ /\ th[t].result.kind = "msg"
                /\ th[t].result.msg # <<>>
        /\ th[t].pc # "done" =>
             /\ th[t].result = NoResult
             /\ ENABLED Step(t)

\* C1's case: blend_tracks failed with something other than a ValueError
\* (the export), and generate returned the wrapped message.
GenerateReturnedBlendFailure ==
    \E t \in Done("generate") :
        th[t].result = ReturnMsg(<<MsgBlend, "EXPORT_FAILED">>)

\* C2: the generator is loaded at most once per process, and every caller
\* gets the same handle.
LoadedAtMostOnce ==
    /\ loads <= 1
    /\ \A t \in Threads, u \in Threads :
         th[t].m # <<>> /\ th[u].m # <<>> => th[t].m = th[u].m

\* C3: generate with an empty or None track list returns the fixed "no files
\* selected" message in the call itself: no step of the pipeline runs, and
\* the model handle, the load count and the scratch directory stay as they
\* were.
EmptyTrackListReturnsAtOnce ==
    [][\A t \in Threads :
         (th[t].pc = "idle" /\ th'[t].op = "generate"
            /\ (th'[t].track_paths.none \/ th'[t].track_paths.s = <<>>))
         => /\ th'[t].pc = "done"
            /\ th'[t].result = ReturnMsg(<<MsgNoFilesSelected>>)
            /\ th'[t].steps = <<>>
            /\ th'[t].blend = NoBlend
            /\ model' = model
            /\ loads' = loads
            /\ fs' = fs]_vars

\* C3's case: generate was called with an empty list and has returned.
EmptyTrackListReturned ==
    \E t \in Done("generate") :
        /\ th[t].track_paths = Some(<<>>)
        /\ th[t].result.kind = "msg"

\* The positions of files that decode to a clip, in order.
RECURSIVE DecodablePositions(_, _)
DecodablePositions(files, i) ==
    IF i > Len(files) THEN <<>>
    ELSE (IF files[i].ext \in {".mp3", ".wav", ".ogg", ".flac"}
             /\ files[i].ms >= 0
          THEN <<i>> ELSE <<>>) \o DecodablePositions(files, i + 1)
ExportFailed(t) == th[t].blend.exc.type = "OSError"

\* C4: partial success. For every track list (of at most 20 entries, as a
\* track list is) with at least one entry that decodes, blend_tracks returns
\* a path and the merged audio is made of exactly the decodable entries, in
\* input order, unless the export itself fails.
PartialSuccess ==
    \A t \in Done("blend_tracks") :
        LET files == th[t].track_paths.s
            good == DecodablePositions(files, 1)
        IN  (Len(files) <= 20 /\ good # <<>> /\ ~ExportFailed(t))
            => /\ th[t].result.kind = "path"
               /\ th[t].blend.audio.src = good

\* C5: blend_tracks raises ValueError and writes no file when the track list
\* is empty or no entry decodes; and whenever blend_tracks raises ValueError
\* inside generate, generate's result is that error's message and nothing
\* else.
InvalidInput ==
    /\ \A t \in Done("blend_tracks") :
         DecodablePositions(th[t].track_paths.s, 1) = <<>>
         => /\ th[t].result.kind = "raised"
            /\ th[t].result.exc.type = "ValueError"
            /\ WrittenBy(th[t].rid) = {}
    /\ \A t \in Calls("generate") :
         /\ (Len(th[t].steps) >= 2
               /\ DecodablePositions(th[t].track_paths.s, 1) = <<>>)
            => /\ th[t].blend.exc = Exc("ValueError", MsgNoValidAudio)
               /\ WrittenBy(th[t].rid) = {}
         /\ th[t].blend.exc.type = "ValueError"
            => /\ th[t].pc = "done"
               /\ th[t].result = ReturnMsg(<<th[t].blend.exc.msg>>)

\* C5's case: generate on a list with no decodable entry returned
\* blend_tracks' "no valid audio" message.
NoValidAudioReturned ==
    \E t \in Done("generate") :
        /\ th[t].track_paths = Some(<<CorruptFile, TxtFile>>)
        /\ th[t].result = ReturnMsg(<<MsgNoValidAudio>>)

\* C6: adaptive crossfade. With more than 5 decoded clips every append is
\* made with min(crossfade_duration, 1 s), which is at most 1 s; with 5 or
\* fewer, with crossfade_duration itself. The count is that of the decoded
\* clips, and a blend that succeeds has made one append per further clip.
AdaptiveCrossfade ==
    \A t \in Done("blend_tracks") :
        LET files == th[t].track_paths.s
            n == Len(DecodablePositions(
                       SubSeq(files, 1, Min(Len(files), 20)), 1))
            configured == th[t].crossfade_duration * 1000
            applied == th[t].blend.applied
        IN  /\ n > 5 => \A k \in 1..Len(applied) :
                          /\ applied[k] = Min(configured, 1000)
                          /\ applied[k] <= 1000
            /\ n <= 5 => \A k \in 1..Len(applied) : applied[k] = configured
            /\ th[t].result.kind = "path" => Len(applied) = n - 1

\* C6's cases: six paths of which five decode, merged with the configured
\* 3 s; and six decoded clips, merged with 1 s at each of the five appends.
CrossfadeCapped ==
    \E t \in Done("blend_tracks") :
        /\ Len(th[t].blend.segments) = 6
        /\ th[t].crossfade_duration = 3
        /\ th[t].blend.applied = <<1000, 1000, 1000, 1000, 1000>>
        /\ th[t].result.kind = "path"

RECURSIVE SumTrimmed(_, _, _)
SumTrimmed(files, positions, extract) ==
    IF positions = <<>> THEN 0
    ELSE Min(files[positions[1]].ms, extract)
         + SumTrimmed(files, Tail(positions), extract)
ExpectedMs(t) ==
    LET files == th[t].track_paths.s
        good == DecodablePositions(files, 1)
        n == Len(good)
        crossfade_eff == IF n > 5
                         THEN Min(th[t].crossfade_duration * 1000, 1000)
                         ELSE th[t].crossfade_duration * 1000
    IN  SumTrimmed(files, good, th[t].duration * 1000)
        - (n - 1) * crossfade_eff

\* C7: blended duration. For N >= 1 decoded clips (of a track list of at
\* most 20 entries), blend_tracks produces a result of length
\* sum_i min(L_i, extract) - (N-1) * crossfade_eff, unless the export fails.
BlendedDuration ==
    \A t \in Done("blend_tracks") :
        LET files == th[t].track_paths.s IN
        (Len(files) <= 20 /\ DecodablePositions(files, 1) # <<>>
           /\ ~ExportFailed(t))
        => /\ th[t].result.kind = "path"
           /\ th[t].blend.audio.ms = ExpectedMs(t)

\* Where blend_tracks does return a path, the merged audio has the expected
\* length.
BlendedDurationWhenMerged ==
    \A t \in Done("blend_tracks") :
        (Len(th[t].track_paths.s) <= 20 /\ th[t].result.kind = "path")
        => th[t].blend.audio.ms = ExpectedMs(t)

\* C8: artifact paths do not collide. No path of the scratch directory is
\* written by two calls, and no generate call loads a reference file that
\* another call wrote.
ArtifactPathsDistinct ==
    /\ \A p \in Paths : Len(fs[p]) <= 1
    /\ \A t \in Calls("generate") : th[t].read \in {0, th[t].rid}

\* What the caller's prompt and genre resolve to.
ExpectedPrompt(prompt, genre) ==
    LET blank == prompt.none
                 \/ \A i \in 1..Len(prompt.s) : prompt.s[i] \in {" ", "\t"}
        base == IF blank THEN <<"smooth", " ", "melodic", " ", "music">>
                ELSE prompt.s
        absent == genre.none \/ genre.s = <<>> \/ genre.s = <<"NASHI">>
    IN  IF absent THEN base ELSE genre.s \o <<",", " ">> \o base
\* C9: prompt resolution. The prompt passed to the generator is base when
\* the genre is absent (None or empty) or the sentinel, and genre ", " base
\* otherwise; base is the default prompt when the caller's prompt is None,
\* empty or all whitespace, and the caller's prompt unchanged otherwise.
PromptResolution ==
    \A t \in Calls("generate") :
        ~th[t].sent.none =>
            /\ th[t].sent.s = ExpectedPrompt(th[t].prompt, th[t].genre)
            /\ (th[t].prompt = Some(<<>>) /\ th[t].genre = Some(<<"NASHI">>))
               => th[t].sent.s = <<"smooth", " ", "melodic", " ", "music">>
            /\ (th[t].prompt = Some(<<"rainy", " ", "night">>)
                  /\ th[t].genre = Some(<<"Synthwave">>))
               => th[t].sent.s =
                    <<"Synthwave", ",", " ", "rainy", " ", "night">>

\* C9's case: a prompt with surrounding whitespace and a genre reached the
\* generator.
PromptWithGenreSent ==
    \E t \in Calls("generate") :
        /\ th[t].prompt = Some(<<" ", "rainy", " ">>)
        /\ th[t].sent = Some(<<"Synthwave", ",", " ", " ", "rainy", " ">>)

\* The steps of generate, and the fixed part of each step's messages.
StepOrder ==
    <<"load_model", "blend", "preprocess", "set_params", "generate",
      "persist">>
StepMessages(step) ==
    CASE step = "load_model" -> {MsgModelLoad}
      [] step = "blend" -> {MsgBlend, MsgNoValidAudio,
                            "CROSSFADE_LONGER_THAN_ORIGINAL",
                            "CROSSFADE_LONGER_THAN_APPENDED"}
      [] step = "preprocess" -> {MsgPreprocess}
      [] OTHER -> {MsgGeneration}
\* C10: the steps of one generate request run in the order load-model,
\* blend, preprocess, set-parameters, generate, persist, each at most once;
\* the first failure ends the request with that step's message, and no later
\* step runs: the generator is invoked only after preprocess, an output file
\* is written only by a request whose every step completed, and only such a
\* request returns a path.
StepsInOrder ==
    \A t \in Calls("generate") :
        LET steps == th[t].steps
            n == Len(steps)
            wrote == {p.prefix : p \in WrittenBy(th[t].rid)}
        IN  /\ n <= 6 /\ steps = SubSeq(StepOrder, 1, n)
            /\ th[t].result.kind = "path" <=>
                 (th[t].pc = "done" /\ n = 6 /\ "phantom_track_" \in wrote)
            /\ (th[t].result.kind = "msg" /\ n > 0)
               => /\ th[t].pc = "done"
                  /\ th[t].result.msg[1] \in StepMessages(steps[n])
                  /\ "phantom_track_" \notin wrote
            /\ ~th[t].sent.none => n >= 5
            /\ "blended_" \in wrote => n >= 2
            /\ "phantom_track_" \in wrote => n = 6
            /\ th[t].pc \notin {"idle", "done"} => th[t].result = NoResult

\* C10's case: preprocessing failed after a successful blend, and the
\* request ended there.
EndedAtPreprocess ==
    \E t \in Done("generate") :
        /\ th[t].steps = <<"load_model", "blend", "preprocess">>
        /\ th[t].result = ReturnMsg(<<MsgPreprocess, "TORCHAUDIO_FAILED">>)
        /\ "blended_" \in {p.prefix : p \in WrittenBy(th[t].rid)}
====
